---- MODULE Spec2Model ----
(***************************************************************************)
(* InputController (src/src/components/InputController.tsx): the pointer   *)
(* tracker, the gesture interpreter and the rotation decay timer, with the *)
(* values of the TreeContext container the component writes through its    *)
(* setters.                                                                *)
(*                                                                         *)
(* Numbers.  A JavaScript number v is held as the integer v * Scale (fixed *)
(* point).  Pixel coordinates of events are whole numbers.  Scale is       *)
(* chosen so that x * 0.01, x * 0.02, x * 0.002 and the mean of up to      *)
(* three coordinates are exact; x * 0.94 and Math.hypot round to the       *)
(* nearest unit, as the floating-point operations round to the nearest     *)
(* double.                                                                 *)
(*                                                                         *)
(* Setters.  setX(v) and setX(f) are applied to the stored value at once   *)
(* (the container's value after the handler is f(value before)).           *)
(*                                                                         *)
(* Requests.  The component never reads the container's values: it calls   *)
(* the setters with a value or with an updater (a function of the previous *)
(* value).  The variables pointer .. state hold the values with every      *)
(* request applied as it was made.  stored holds the values the container  *)
(* has applied, and pending the requests it has not applied yet, in the    *)
(* order they were made; a container that applies at once has none         *)
(* pending.                                                                *)
(*                                                                         *)
(* Effects.  The window's listeners and the interval are state: a handler  *)
(* runs when its event type has a listener, the decay when the interval is *)
(* active.  The cleanups of the two effects run one after the other with   *)
(* no event between them (one thread).                                     *)
(***************************************************************************)
EXTENDS Integers, Sequences, FiniteSets

\* ------------------------------------------------------------------ numbers

\* Units per 1.0 of a JavaScript number.
Scale == 60000

\* Math.hypot is computed to 1/HypotScale of a pixel.
HypotScale == 100

Abs(v) == IF v < 0 THEN -v ELSE v

\* a / b rounded to the nearest integer (b > 0), halves away from zero.
RoundDiv(a, b) ==
    IF a >= 0 THEN (2 * a + b) \div (2 * b)
    ELSE -((2 * (-a) + b) \div (2 * b))

\* v * (num / den) for a decimal literal num/den, e.g. v * 0.94.
MulDec(v, num, den) == RoundDiv(v * num, den)

\* The largest r in lo..hi with r * r <= n (lo * lo <= n < (hi + 1)^2).
RECURSIVE SqrtBetween(_, _, _)
SqrtBetween(n, lo, hi) ==
    IF lo >= hi THEN lo
    ELSE LET mid == (lo + hi + 1) \div 2
         IN  IF mid * mid <= n THEN SqrtBetween(n, mid, hi)
             ELSE SqrtBetween(n, lo, mid - 1)

\* sqrt(n) rounded to the nearest integer.
RoundSqrt(n) == (SqrtBetween(4 * n, 0, 46340) + 1) \div 2

\* Math.hypot(dx, dy) of two whole pixel differences, as a scaled number.
Hypot(dx, dy) ==
    RoundSqrt((dx * dx + dy * dy) * HypotScale * HypotScale) * (Scale \div HypotScale)

MathMin(a, b) == IF a < b THEN a ELSE b
MathMax(a, b) == IF a > b THEN a ELSE b

\* clamp without its upper bound.
clampNoMax(value, min, max) == MathMax(value, min)

\* const clamp = (value, min, max) => Math.min(Math.max(value, min), max)
clamp(value, min, max) == MathMin(MathMax(value, min), max)

\* ------------------------------------------------------- nullable references

Null == <<>>
Some(v) == <<v>>
Val(o) == o[1]

\* ----------------------------------------------------------- the environment

\* window.innerWidth and window.innerHeight, in pixels.
InnerWidth == 1000
InnerHeight == 500

\* normalize(x, y) = { x: x / innerWidth, y: y / innerHeight }
normalize(x, y) ==
    [x |-> RoundDiv(x * Scale, InnerWidth), y |-> RoundDiv(y * Scale, InnerHeight)]

\* ------------------------------------------------ the inputs of the events

\* Length of the event sequences explored, with every input and with the
\* inputs of a gesture.
MaxSteps == 3
MaxGestureSteps == 4

PointerIds == {1, 2, 3}
Points ==
    { [x |-> 100, y |-> 100], [x |-> 200, y |-> 100],
      [x |-> 100, y |-> 50], [x |-> 250, y |-> 50] }
ButtonsValues == {0, 1}
PointerTypes == {"mouse", "touch"}
MovementXs == {-7}
WheelDeltas == {-150, 250}
WheelPoints == { [x |-> 200, y |-> 50] }
ClickPoints == { [x |-> 250, y |-> 100] }
Times == {1700000001, 1700000002}

\* The container's values when the component mounts.
\* (all at rest, all near their upper bounds, all near their lower bounds)
Tenth == Scale \div 10
InitialValues ==
    { [boost |-> 0, pan |-> [x |-> 0, y |-> 0], zoom |-> 0, state |-> "FORMED"],
      [boost |-> 29 * Tenth, pan |-> [x |-> 149 * Tenth, y |-> 99 * Tenth],
       zoom |-> 399 * Tenth, state |-> "CHAOS"],
      [boost |-> -29 * Tenth, pan |-> [x |-> -149 * Tenth, y |-> -99 * Tenth],
       zoom |-> -199 * Tenth, state |-> "FORMED"] }
RestValues == {v \in InitialValues : v.boost = 0}
InitialHover == Scale \div 2
TreeStates == {"FORMED", "CHAOS"}

\* The inputs of the longer sequences.
GestureIds == {1, 2, 3}
GestureTypes == {"mouse"}
GestureDeltas == {250}
GestureTimes == {1700000001}

\* The inputs of the sequences with a container that defers the requests.
MaxDeferredSteps == 3
DeferredIds == {1, 2}
DeferredPoints == { [x |-> 100, y |-> 100], [x |-> 250, y |-> 50] }

\* The inputs of the sequences with the unmount.
MaxTeardownSteps == 4
TeardownIds == {1, 2}
TeardownPoints == { [x |-> 100, y |-> 100], [x |-> 250, y |-> 50] }

\* The inputs of the sequences with the timer and no drag: the boosts 3, 1,
\* 0.2, 0.01, -3 and -0.5.
DecayValues ==
    { [boost |-> b, pan |-> [x |-> 0, y |-> 0], zoom |-> 0, state |-> "FORMED"] :
        b \in {3 * Scale, Scale, 2 * Tenth, Scale \div 100, -3 * Scale, -5 * Tenth} }
DecayIds == {1}
DecayPoints == { [x |-> 100, y |-> 100], [x |-> 200, y |-> 100] }

\* ---------------------------------------------------------------- the state

VARIABLES
    pointers,       \* useRef Map id -> {x, y}: a sequence of [id, x, y] in insertion order
    lastCentroid,   \* useRef {x, y} | null
    lastDistance,   \* useRef number | null
    lastPrimary,    \* useRef {id, x, y} | null
    pointer,        \* container: the pointer signal, a normalized point or null
    hoverProgress,  \* container
    clickTrigger,   \* container
    panOffset,      \* container {x, y}
    rotationBoost,  \* container
    zoomOffset,     \* container
    state,          \* container: "FORMED" | "CHAOS"
    stored,         \* container: the values with the requests applied so far
    pending,        \* container: the requests made and not applied yet, in order
    batching,       \* container: it defers the requests (or applies them at once)
    listeners,      \* window: the event types the component listens to
    timer,          \* the decay interval is active
    steps,          \* number of events delivered so far
    lastEvent,      \* history: the kind of the last event delivered
    downIds,        \* history: the identifiers whose last down/up/cancel was a down
    anchor,         \* history: where the sole pointer was put down from idle, or
                    \* was when the other of two pointers was released
    gesture,        \* history: the tracker and the offsets when the second pointer
                    \* went down, while the two-pointer gesture lasts
    initialState,   \* history: state when the component mounted
    doubleClicks    \* history: number of double-clicks so far, modulo 2

refs == <<pointers, lastCentroid, lastDistance, lastPrimary>>
container ==
    <<pointer, hoverProgress, clickTrigger, panOffset, rotationBoost, zoomOffset, state>>
updates == <<stored, pending, batching>>
effects == <<listeners, timer>>
history == <<lastEvent, downIds, anchor, gesture, initialState, doubleClicks>>
vars == <<refs, container, updates, effects, steps, history>>

\* ------------------------------------------------------------ Map operations

\* pointers.current.has(id)
Has(m, id) == \E k \in 1..Len(m) : m[k].id = id

\* set that always adds an entry.
MapSetAppends(m, id, x, y) == Append(m, [id |-> id, x |-> x, y |-> y])

\* pointers.current.set(id, {x, y}): a present key keeps its place, a new key
\* goes last.
MapSet(m, id, x, y) ==
    IF Has(m, id)
    THEN [k \in 1..Len(m) |-> IF m[k].id = id THEN [id |-> id, x |-> x, y |-> y] ELSE m[k]]
    ELSE Append(m, [id |-> id, x |-> x, y |-> y])

\* pointers.current.delete(id)
MapDelete(m, id) == SelectSeq(m, LAMBDA e : e.id # id)

RECURSIVE SumX(_)
SumX(m) == IF m = <<>> THEN 0 ELSE Head(m).x + SumX(Tail(m))
RECURSIVE SumY(_)
SumY(m) == IF m = <<>> THEN 0 ELSE Head(m).y + SumY(Tail(m))

\* ------------------------------------------------------------------ handlers

\* The baseline taken from the pointer that went down alone.
DownCentroidOfLast(pts) == [x |-> pts[2].x * Scale, y |-> pts[2].y * Scale]

\* The centroid handlePointerDown stores: the mean of the first two samples.
DownCentroid(pts) ==
    [x |-> RoundDiv((pts[1].x + pts[2].x) * Scale, 2),
     y |-> RoundDiv((pts[1].y + pts[2].y) * Scale, 2)]

\* Math.hypot(pts[0].x - pts[1].x, pts[0].y - pts[1].y)
PinchDistance(pts) == Hypot(pts[1].x - pts[2].x, pts[1].y - pts[2].y)

\* handlePointerDown that does not store the single-pointer reference.
handlePointerDownNoPrimary(id, x, y) ==
    LET pts == MapSet(pointers, id, x, y)
    IN  /\ pointers' = pts
        /\ pointer' = Some(normalize(x, y))
        /\ IF Len(pts) = 2
           THEN /\ lastCentroid' = Some(DownCentroid(pts))
                /\ lastDistance' = Some(PinchDistance(pts))
           ELSE UNCHANGED <<lastCentroid, lastDistance>>
        /\ UNCHANGED <<lastPrimary, hoverProgress, clickTrigger, panOffset,
                       rotationBoost, zoomOffset, state>>

handlePointerDown(id, x, y) ==
    LET pts == MapSet(pointers, id, x, y)
    IN  /\ pointers' = pts
        /\ lastPrimary' = Some([id |-> id, x |-> x, y |-> y])
        /\ pointer' = Some(normalize(x, y))
        /\ IF Len(pts) = 2
           THEN /\ lastCentroid' = Some(DownCentroid(pts))
                /\ lastDistance' = Some(PinchDistance(pts))
           ELSE UNCHANGED <<lastCentroid, lastDistance>>
        /\ UNCHANGED <<hoverProgress, clickTrigger, panOffset, rotationBoost,
                       zoomOffset, state>>

\* event.buttons !== 0 || event.pointerType === 'touch'
IsDragging(buttons, pointerType) == buttons # 0 \/ pointerType = "touch"

\* The centroid handlePointerMove computes: the mean of all samples.
MoveCentroid(pts) ==
    [x |-> RoundDiv(SumX(pts) * Scale, Len(pts)),
     y |-> RoundDiv(SumY(pts) * Scale, Len(pts))]

\* The drag with the sign of the displacement kept.
DragBoostSameSign(prevBoost, dx) ==
    clamp(prevBoost + MulDec(dx * Scale, 1, 100), -3 * Scale, 3 * Scale)

\* setRotationBoost((prevBoost) => clamp(prevBoost - dx * 0.01, -3, 3))
DragBoost(prevBoost, dx) ==
    clamp(prevBoost - MulDec(dx * Scale, 1, 100), -3 * Scale, 3 * Scale)

\* The pan with the vertical axis not inverted.
PanByNotInverted(prev, deltaX, deltaY) ==
    [x |-> clamp(prev.x + MulDec(deltaX, 2, 100), -15 * Scale, 15 * Scale),
     y |-> clamp(prev.y + MulDec(deltaY, 2, 100), -10 * Scale, 10 * Scale)]

\* setPanOffset((prev) => ({ x: clamp(prev.x + deltaX * 0.02, -15, 15),
\*                           y: clamp(prev.y - deltaY * 0.02, -10, 10) }))
PanBy(prev, deltaX, deltaY) ==
    [x |-> clamp(prev.x + MulDec(deltaX, 2, 100), -15 * Scale, 15 * Scale),
     y |-> clamp(prev.y - MulDec(deltaY, 2, 100), -10 * Scale, 10 * Scale)]

\* setZoomOffset((prev) => clamp(prev - delta * 0.01, -20, 40))
PinchZoom(prev, delta) ==
    clamp(prev - MulDec(delta, 1, 100), -20 * Scale, 40 * Scale)

\* handlePointerMove past its first line (the identifier is tracked).
TrackedMove(id, x, y, buttons, pointerType, movementX) ==
    LET pts == MapSet(pointers, id, x, y)
        isDragging == IsDragging(buttons, pointerType)
    IN  /\ pointers' = pts
        /\ pointer' = Some(normalize(x, y))
        /\ UNCHANGED <<hoverProgress, clickTrigger, state>>
        /\ IF Len(pts) = 1 /\ isDragging
           THEN LET dx == IF lastPrimary # Null THEN x - Val(lastPrimary).x
                          ELSE movementX
                IN  /\ lastPrimary' = Some([id |-> id, x |-> x, y |-> y])
                    /\ rotationBoost' = DragBoost(rotationBoost, dx)
                    /\ UNCHANGED <<lastCentroid, lastDistance, panOffset, zoomOffset>>
           ELSE IF Len(pts) >= 2
           THEN LET centroid == MoveCentroid(pts)
                    dist == PinchDistance(pts)
                IN  /\ panOffset' =
                           IF lastCentroid # Null
                           THEN PanBy(panOffset, centroid.x - Val(lastCentroid).x,
                                      centroid.y - Val(lastCentroid).y)
                           ELSE panOffset
                    /\ lastCentroid' = Some(centroid)
                    /\ zoomOffset' =
                           IF lastDistance # Null
                           THEN PinchZoom(zoomOffset, dist - Val(lastDistance))
                           ELSE zoomOffset
                    /\ lastDistance' = Some(dist)
                    /\ UNCHANGED <<lastPrimary, rotationBoost>>
           ELSE /\ lastCentroid' = Null
                /\ lastDistance' = Null
                /\ UNCHANGED <<lastPrimary, panOffset, rotationBoost, zoomOffset>>

\* handlePointerMove without its first line.
handlePointerMoveUnguarded(id, x, y, buttons, pointerType, movementX) ==
    TrackedMove(id, x, y, buttons, pointerType, movementX)

\* if (!pointers.current.has(event.pointerId)) return;
handlePointerMove(id, x, y, buttons, pointerType, movementX) ==
    IF ~Has(pointers, id)
    THEN UNCHANGED <<refs, container>>
    ELSE TrackedMove(id, x, y, buttons, pointerType, movementX)

\* handlePointerUp that leaves lastPrimary as it is while pointers remain.
handlePointerUpKeepsPrimary(id) ==
    LET pts == MapDelete(pointers, id)
    IN  /\ pointers' = pts
        /\ IF Len(pts) = 0
           THEN /\ pointer' = Null
                /\ lastCentroid' = Null
                /\ lastDistance' = Null
                /\ lastPrimary' = Null
           ELSE /\ pointer' = Some(normalize(pts[1].x, pts[1].y))
                /\ UNCHANGED <<lastPrimary, lastCentroid, lastDistance>>
        /\ UNCHANGED <<hoverProgress, clickTrigger, panOffset, rotationBoost,
                       zoomOffset, state>>

\* handlePointerUp that clears only lastPrimary when no pointer remains.
handlePointerUpKeepsReferences(id) ==
    LET pts == MapDelete(pointers, id)
    IN  /\ pointers' = pts
        /\ IF Len(pts) = 0
           THEN /\ pointer' = Null
                /\ lastPrimary' = Null
                /\ UNCHANGED <<lastCentroid, lastDistance>>
           ELSE /\ pointer' = Some(normalize(pts[1].x, pts[1].y))
                /\ lastPrimary' = Some([id |-> pts[1].id, x |-> pts[1].x, y |-> pts[1].y])
                /\ UNCHANGED <<lastCentroid, lastDistance>>
        /\ UNCHANGED <<hoverProgress, clickTrigger, panOffset, rotationBoost,
                       zoomOffset, state>>

\* handlePointerUp that ends the momentum with the gesture.
handlePointerUpResetsBoost(id) ==
    LET pts == MapDelete(pointers, id)
    IN  /\ pointers' = pts
        /\ IF Len(pts) = 0
           THEN /\ pointer' = Null
                /\ lastCentroid' = Null
                /\ lastDistance' = Null
                /\ lastPrimary' = Null
                /\ rotationBoost' = 0
           ELSE /\ pointer' = Some(normalize(pts[1].x, pts[1].y))
                /\ lastPrimary' = Some([id |-> pts[1].id, x |-> pts[1].x, y |-> pts[1].y])
                /\ UNCHANGED <<lastCentroid, lastDistance, rotationBoost>>
        /\ UNCHANGED <<hoverProgress, clickTrigger, panOffset, zoomOffset, state>>

handlePointerUp(id) ==
    LET pts == MapDelete(pointers, id)
    IN  /\ pointers' = pts
        /\ IF Len(pts) = 0
           THEN /\ pointer' = Null
                /\ lastCentroid' = Null
                /\ lastDistance' = Null
                /\ lastPrimary' = Null
           ELSE /\ pointer' = Some(normalize(pts[1].x, pts[1].y))
                /\ lastPrimary' = Some([id |-> pts[1].id, x |-> pts[1].x, y |-> pts[1].y])
                /\ UNCHANGED <<lastCentroid, lastDistance>>
        /\ UNCHANGED <<hoverProgress, clickTrigger, panOffset, rotationBoost,
                       zoomOffset, state>>

\* The wheel zoom with an upper bound of its own.
WheelZoomWide(prev, deltaY) ==
    clamp(prev - MulDec(deltaY * Scale, 2, 1000), -20 * Scale, 60 * Scale)

\* setZoomOffset((prev) => clamp(prev - event.deltaY * 0.002, -20, 40))
WheelZoom(prev, deltaY) ==
    clamp(prev - MulDec(deltaY * Scale, 2, 1000), -20 * Scale, 40 * Scale)

handleWheel(x, y, deltaY) ==
    /\ pointer' = Some(normalize(x, y))
    /\ zoomOffset' = WheelZoom(zoomOffset, deltaY)
    /\ UNCHANGED <<refs, hoverProgress, clickTrigger, panOffset, rotationBoost, state>>

\* handleClick without setHoverProgress(0).
handleClickKeepsHover(x, y, now) ==
    /\ pointer' = Some(normalize(x, y))
    /\ clickTrigger' = now
    /\ UNCHANGED <<refs, hoverProgress, panOffset, rotationBoost, zoomOffset, state>>

handleClick(x, y, now) ==
    /\ pointer' = Some(normalize(x, y))
    /\ clickTrigger' = now
    /\ hoverProgress' = 0
    /\ UNCHANGED <<refs, panOffset, rotationBoost, zoomOffset, state>>

\* The updater that always answers 'CHAOS'.
ToggleToChaos(prev) == "CHAOS"

\* (prev) => (prev === 'CHAOS' ? 'FORMED' : 'CHAOS')
Toggle(prev) == IF prev = "CHAOS" THEN "FORMED" ELSE "CHAOS"

handleDoubleClick ==
    /\ state' = Toggle(state)
    /\ UNCHANGED <<refs, pointer, hoverProgress, clickTrigger, panOffset,
                   rotationBoost, zoomOffset>>

\* The updater without its first line.
DecayedNoSnap(prev) == MulDec(prev, 94, 100)

\* (prev) => { if (Math.abs(prev) < 0.001) return 0; return prev * 0.94; }
Decayed(prev) ==
    IF Abs(prev) < Scale \div 1000 THEN 0 ELSE MulDec(prev, 94, 100)

\* The tick that also lets the pan spring back.
decayRecentres ==
    /\ rotationBoost' = Decayed(rotationBoost)
    /\ panOffset' = [x |-> MulDec(panOffset.x, 94, 100), y |-> MulDec(panOffset.y, 94, 100)]
    /\ UNCHANGED <<refs, pointer, hoverProgress, clickTrigger, zoomOffset, state>>

decay ==
    /\ rotationBoost' = Decayed(rotationBoost)
    /\ UNCHANGED <<refs, pointer, hoverProgress, clickTrigger, panOffset,
                   zoomOffset, state>>

\* ------------------------------------------------------------------ requests

\* setX(value) and setX(updater): the updater is named by the handler's
\* expression and carries the numbers the closure captured.
SetValue(setter, value) == [setter |-> setter, updater |-> "value", arg |-> value]
SetWith(setter, updater, captured) ==
    [setter |-> setter, updater |-> updater, arg |-> captured]

\* A drag that sends the value computed from the boost the container has now.
DragRequestFromSnapshot(dx) ==
    SetValue("setRotationBoost", DragBoost(stored.rotationBoost, dx))

\* setRotationBoost((prevBoost) => clamp(prevBoost - dx * 0.01, -3, 3))
DragRequest(dx) == SetWith("setRotationBoost", "drag", <<dx>>)

\* The setter calls of each handler, in order.
DownRequests(id, x, y) == << SetValue("setPointer", Some(normalize(x, y))) >>

MoveRequests(id, x, y, buttons, pointerType, movementX) ==
    LET pts == MapSet(pointers, id, x, y)
        centroid == MoveCentroid(pts)
        dist == PinchDistance(pts)
    IN  IF ~Has(pointers, id) THEN << >>
        ELSE << SetValue("setPointer", Some(normalize(x, y))) >> \o
             ( IF Len(pts) = 1 /\ IsDragging(buttons, pointerType)
               THEN << DragRequest(IF lastPrimary # Null THEN x - Val(lastPrimary).x
                                   ELSE movementX) >>
               ELSE IF Len(pts) >= 2
               THEN ( IF lastCentroid # Null
                      THEN << SetWith("setPanOffset", "pan",
                                      << centroid.x - Val(lastCentroid).x,
                                         centroid.y - Val(lastCentroid).y >>) >>
                      ELSE << >> ) \o
                    ( IF lastDistance # Null
                      THEN << SetWith("setZoomOffset", "pinch",
                                      << dist - Val(lastDistance) >>) >>
                      ELSE << >> )
               ELSE << >> )

UpRequests(id) ==
    LET pts == MapDelete(pointers, id)
    IN  IF Len(pts) = 0 THEN << SetValue("setPointer", Null) >>
        ELSE << SetValue("setPointer", Some(normalize(pts[1].x, pts[1].y))) >>

WheelRequests(x, y, deltaY) ==
    << SetValue("setPointer", Some(normalize(x, y))),
       SetWith("setZoomOffset", "wheel", <<deltaY>>) >>

ClickRequests(x, y, now) ==
    << SetValue("setPointer", Some(normalize(x, y))),
       SetValue("setClickTrigger", now),
       SetValue("setHoverProgress", 0) >>

DoubleClickRequests == << SetWith("setState", "toggle", << >>) >>

DecayRequests == << SetWith("setRotationBoost", "decay", << >>) >>

\* The value a request gives from the value the container holds when it
\* applies the request.
NextValue(req, prev) ==
    CASE req.updater = "value" -> req.arg
      [] req.updater = "drag" -> DragBoost(prev, req.arg[1])
      [] req.updater = "decay" -> Decayed(prev)
      [] req.updater = "pan" -> PanBy(prev, req.arg[1], req.arg[2])
      [] req.updater = "pinch" -> PinchZoom(prev, req.arg[1])
      [] req.updater = "wheel" -> WheelZoom(prev, req.arg[1])
      [] req.updater = "toggle" -> Toggle(prev)

\* The container applies one request to its values.
Apply(req, values) ==
    CASE req.setter = "setPointer" ->
             [values EXCEPT !.pointer = NextValue(req, @)]
      [] req.setter = "setHoverProgress" ->
             [values EXCEPT !.hoverProgress = NextValue(req, @)]
      [] req.setter = "setClickTrigger" ->
             [values EXCEPT !.clickTrigger = NextValue(req, @)]
      [] req.setter = "setPanOffset" ->
             [values EXCEPT !.panOffset = NextValue(req, @)]
      [] req.setter = "setRotationBoost" ->
             [values EXCEPT !.rotationBoost = NextValue(req, @)]
      [] req.setter = "setZoomOffset" ->
             [values EXCEPT !.zoomOffset = NextValue(req, @)]
      [] req.setter = "setState" ->
             [values EXCEPT !.state = NextValue(req, @)]

\* The container applies requests in the order they were made.
RECURSIVE ApplyAll(_, _)
ApplyAll(reqs, values) ==
    IF reqs = << >> THEN values ELSE ApplyAll(Tail(reqs), Apply(Head(reqs), values))

\* The handler has made the requests: a batching container keeps them for
\* later, another applies them before the handler returns.
Requested(reqs) ==
    /\ UNCHANGED batching
    /\ IF batching
       THEN pending' = pending \o reqs /\ UNCHANGED stored
       ELSE pending' = << >> /\ stored' = ApplyAll(pending \o reqs, stored)

\* The batching container applies the oldest pending request.
ApplyNext ==
    /\ pending # << >>
    /\ stored' = Apply(Head(pending), stored)
    /\ pending' = Tail(pending)
    /\ UNCHANGED batching

\* ------------------------------------------------------------------- history

\* PanOffset and ZoomOffset are strictly inside their intervals.
StrictlyInside(pan, zoom) ==
    /\ -15 * Scale < pan.x /\ pan.x < 15 * Scale
    /\ -10 * Scale < pan.y /\ pan.y < 10 * Scale
    /\ -20 * Scale < zoom /\ zoom < 40 * Scale

\* The tracked sample of another identifier than id (when two are tracked).
OtherSample(m, id) == Head(SelectSeq(m, LAMBDA e : e.id # id))

\* anchor: set by a down from idle and by the release of one of two tracked
\* pointers; kept over events that are not pointer events and over moves that
\* are not drags; marked by the first drag; dropped by any other pointer event.
\* gesture: set by the down that makes the count go from one to two with the
\* offsets strictly inside their intervals; kept over moves while they stay
\* strictly inside; dropped by any down, up or wheel.
ObserveDown(id, x, y) ==
    /\ lastEvent' = "down"
    /\ downIds' = downIds \cup {id}
    /\ anchor' = IF pointers = <<>>
                 THEN Some([kind |-> "down", id |-> id, x |-> x, dragged |-> FALSE])
                 ELSE Null
    /\ gesture' = IF Len(pointers) = 1 /\ pointers[1].id # id
                     /\ StrictlyInside(panOffset, zoomOffset)
                  THEN Some([pts0 |-> Append(pointers, [id |-> id, x |-> x, y |-> y]),
                             pan0 |-> panOffset, zoom0 |-> zoomOffset])
                  ELSE Null
    /\ UNCHANGED <<initialState, doubleClicks>>

ObserveMove(id, buttons, pointerType) ==
    /\ lastEvent' = "move"
    /\ IF id \notin downIds
       THEN UNCHANGED <<anchor, gesture>>
       ELSE /\ anchor' = IF ~IsDragging(buttons, pointerType) THEN anchor
                         ELSE IF anchor # Null /\ ~Val(anchor).dragged
                         THEN Some([Val(anchor) EXCEPT !.dragged = TRUE])
                         ELSE Null
            /\ gesture' = IF gesture # Null /\ StrictlyInside(panOffset', zoomOffset')
                          THEN gesture
                          ELSE Null
    /\ UNCHANGED <<downIds, initialState, doubleClicks>>

ObserveUp(id) ==
    /\ lastEvent' = "up"
    /\ downIds' = downIds \ {id}
    /\ anchor' = IF Cardinality(downIds) = 2 /\ id \in downIds
                 THEN Some([kind |-> "release", id |-> OtherSample(pointers, id).id,
                            x |-> OtherSample(pointers, id).x, dragged |-> FALSE])
                 ELSE Null
    /\ gesture' = Null
    /\ UNCHANGED <<initialState, doubleClicks>>

ObserveWheel ==
    /\ lastEvent' = "wheel"
    /\ gesture' = Null
    /\ UNCHANGED <<downIds, anchor, initialState, doubleClicks>>

ObserveClick ==
    /\ lastEvent' = "click"
    /\ UNCHANGED <<downIds, anchor, gesture, initialState, doubleClicks>>

ObserveDoubleClick ==
    /\ lastEvent' = "dblclick"
    /\ doubleClicks' = (doubleClicks + 1) % 2
    /\ UNCHANGED <<downIds, anchor, gesture, initialState>>

ObserveTimer ==
    /\ lastEvent' = "timer"
    /\ UNCHANGED <<downIds, anchor, gesture, initialState, doubleClicks>>

\* ------------------------------------------------------------------- effects

\* The event types of the seven window.addEventListener calls.
EventTypes ==
    {"pointerdown", "pointermove", "pointerup", "pointercancel", "wheel", "click",
     "dblclick"}

\* window.addEventListener(type, handler), seven times: the listeners after.
addListeners(ls) == ls \cup EventTypes

\* The cleanup of the first effect: window.removeEventListener(type, handler),
\* seven times.
removeListeners(ls) == ls \ EventTypes

\* const decay = setInterval(..., 16): the interval is active after.
setDecay(active) == TRUE

\* The cleanup that leaves the interval running.
clearDecayLeaks(active) == active

\* The cleanup of the second effect: clearInterval(decay).
clearDecay(active) == FALSE

\* The window has a listener of the component for the event type.
Subscribed(type) == type \in listeners

\* -------------------------------------------------------------------- events

DownEvent(id, x, y) ==
    /\ Subscribed("pointerdown")
    /\ handlePointerDown(id, x, y)
    /\ Requested(DownRequests(id, x, y))
    /\ ObserveDown(id, x, y)
    /\ UNCHANGED effects

MoveEvent(id, x, y, buttons, pointerType, movementX) ==
    /\ Subscribed("pointermove")
    /\ handlePointerMove(id, x, y, buttons, pointerType, movementX)
    /\ Requested(MoveRequests(id, x, y, buttons, pointerType, movementX))
    /\ ObserveMove(id, buttons, pointerType)
    /\ UNCHANGED effects

\* pointerup and pointercancel have the same handler.
UpEvent(id) ==
    /\ Subscribed("pointerup") \/ Subscribed("pointercancel")
    /\ handlePointerUp(id)
    /\ Requested(UpRequests(id))
    /\ ObserveUp(id)
    /\ UNCHANGED effects

WheelEvent(x, y, deltaY) ==
    /\ Subscribed("wheel")
    /\ handleWheel(x, y, deltaY)
    /\ Requested(WheelRequests(x, y, deltaY))
    /\ ObserveWheel
    /\ UNCHANGED effects

ClickEvent(x, y, now) ==
    /\ Subscribed("click")
    /\ handleClick(x, y, now)
    /\ Requested(ClickRequests(x, y, now))
    /\ ObserveClick
    /\ UNCHANGED effects

DoubleClickEvent ==
    /\ Subscribed("dblclick")
    /\ handleDoubleClick
    /\ Requested(DoubleClickRequests)
    /\ ObserveDoubleClick
    /\ UNCHANGED effects

\* A tick of the interval, while it is active.
TimerEvent ==
    /\ timer
    /\ decay
    /\ Requested(DecayRequests)
    /\ ObserveTimer
    /\ UNCHANGED effects

\* The component unmounts: the cleanups of the two effects.
UnmountEvent ==
    /\ listeners # {} \/ timer
    /\ listeners' = removeListeners(listeners)
    /\ timer' = clearDecay(timer)
    /\ lastEvent' = "unmount"
    /\ UNCHANGED <<refs, container, updates, downIds, anchor, gesture, initialState, doubleClicks>>

\* The setters of the container change while the component is mounted: the
\* cleanups of the two effects, then the effects again.  The references live
\* on (useRef).
RerunEvent ==
    /\ listeners # {} \/ timer
    /\ listeners' = addListeners(removeListeners(listeners))
    /\ timer' = setDecay(clearDecay(timer))
    /\ lastEvent' = "rerun"
    /\ UNCHANGED <<refs, container, updates, downIds, anchor, gesture, initialState, doubleClicks>>

\* The host has an event of a type the window has no listener for: no handler
\* runs.
UnheardEvent(type) ==
    /\ ~Subscribed(type)
    /\ lastEvent' = "unheard"
    /\ UNCHANGED <<refs, container, updates, effects, downIds, anchor, gesture,
                   initialState, doubleClicks>>

\* The batching container applies a pending request, between two events.
ApplyEvent ==
    /\ ApplyNext
    /\ lastEvent' = "apply"
    /\ UNCHANGED <<refs, container, effects, downIds, anchor, gesture, initialState,
                   doubleClicks>>

\* ------------------------------------------------------------------- actions

\* One more event is delivered, of at most limit.
Step(limit) == steps < limit /\ steps' = steps + 1

PointerDown(limit, ids, pts) ==
    \E id \in ids, p \in pts : Step(limit) /\ DownEvent(id, p.x, p.y)

PointerMove(limit, ids, pts, buttons, types) ==
    \E id \in ids, p \in pts, b \in buttons, t \in types, m \in MovementXs :
        Step(limit) /\ MoveEvent(id, p.x, p.y, b, t, m)

PointerUp(limit, ids) == \E id \in ids : Step(limit) /\ UpEvent(id)

Wheel(limit, deltas) ==
    \E p \in WheelPoints, d \in deltas : Step(limit) /\ WheelEvent(p.x, p.y, d)

Click(limit, times) ==
    \E p \in ClickPoints, now \in times : Step(limit) /\ ClickEvent(p.x, p.y, now)

DoubleClick(limit) == Step(limit) /\ DoubleClickEvent

DecayTick(limit) == Step(limit) /\ TimerEvent

Mounted ==
    /\ listeners = addListeners({})
    /\ timer = setDecay(FALSE)
    /\ pointers = <<>>
    /\ lastCentroid = Null
    /\ lastDistance = Null
    /\ lastPrimary = Null
    /\ pointer = Null
    /\ hoverProgress = InitialHover
    /\ clickTrigger = 0
    /\ steps = 0
    /\ lastEvent = "none"
    /\ downIds = {}
    /\ anchor = Null
    /\ gesture = Null
    /\ doubleClicks = 0

\* The values of the container with every request applied as it was made.
Values ==
    [pointer |-> pointer, hoverProgress |-> hoverProgress,
     clickTrigger |-> clickTrigger, panOffset |-> panOffset,
     rotationBoost |-> rotationBoost, zoomOffset |-> zoomOffset, state |-> state]

MountedWith(values) ==
    /\ Mounted
    /\ \E v \in values :
           /\ panOffset = v.pan
           /\ rotationBoost = v.boost
           /\ zoomOffset = v.zoom
           /\ state = v.state
           /\ initialState = v.state
    /\ stored = Values
    /\ pending = << >>

\* The container applies each request at once.
Eager == batching = FALSE

\* Every event with every input, in short sequences, from every initial value.
Init == MountedWith(InitialValues) /\ Eager

Next ==
    \/ PointerDown(MaxSteps, PointerIds, Points)
    \/ PointerMove(MaxSteps, PointerIds, Points, ButtonsValues, PointerTypes)
    \/ PointerUp(MaxSteps, PointerIds)
    \/ Wheel(MaxSteps, WheelDeltas)
    \/ Click(MaxSteps, Times)
    \/ DoubleClick(MaxSteps)
    \/ DecayTick(MaxSteps)

Spec == Init /\ [][Next]_vars

\* Every event, in longer sequences, with fewer inputs and from the values at rest.
GestureInit == MountedWith(RestValues) /\ Eager

GestureNext ==
    \/ PointerDown(MaxGestureSteps, GestureIds, Points)
    \/ PointerMove(MaxGestureSteps, GestureIds, Points, ButtonsValues, GestureTypes)
    \/ PointerUp(MaxGestureSteps, GestureIds)
    \/ Wheel(MaxGestureSteps, GestureDeltas)
    \/ Click(MaxGestureSteps, GestureTimes)
    \/ DoubleClick(MaxGestureSteps)
    \/ DecayTick(MaxGestureSteps)

GestureSpec == GestureInit /\ [][GestureNext]_vars

\* The timer ticking for ever (setInterval), with the events that are no drag
\* of one pointer, in sequences of any length, from the boosts a drag can leave.
DecayInit == MountedWith(DecayValues) /\ Eager

DecayTimer == TimerEvent /\ UNCHANGED steps

DecayPointerDown ==
    \E id \in DecayIds, p \in DecayPoints : DownEvent(id, p.x, p.y) /\ UNCHANGED steps

DecayHover ==
    \E id \in DecayIds, p \in DecayPoints, m \in MovementXs :
        MoveEvent(id, p.x, p.y, 0, "mouse", m) /\ UNCHANGED steps

DecayPointerUp == \E id \in DecayIds : UpEvent(id) /\ UNCHANGED steps

DecayClick ==
    \E p \in ClickPoints, now \in GestureTimes :
        ClickEvent(p.x, p.y, now) /\ UNCHANGED steps

DecayDoubleClick == DoubleClickEvent /\ UNCHANGED steps

DecayNext ==
    \/ DecayTimer
    \/ DecayPointerDown
    \/ DecayHover
    \/ DecayPointerUp
    \/ DecayClick
    \/ DecayDoubleClick

DecaySpec == DecayInit /\ [][DecayNext]_vars /\ WF_vars(DecayTimer)

\* Every event in short sequences, with the unmount and the events the host
\* has after it.
TeardownInit == MountedWith(InitialValues) /\ Eager

Unmount == Step(MaxTeardownSteps) /\ UnmountEvent

Rerun == Step(MaxTeardownSteps) /\ RerunEvent

Unheard == \E type \in EventTypes : Step(MaxTeardownSteps) /\ UnheardEvent(type)

TeardownNext ==
    \/ PointerDown(MaxTeardownSteps, TeardownIds, TeardownPoints)
    \/ PointerMove(MaxTeardownSteps, TeardownIds, TeardownPoints, ButtonsValues,
                   GestureTypes)
    \/ PointerUp(MaxTeardownSteps, TeardownIds)
    \/ Wheel(MaxTeardownSteps, GestureDeltas)
    \/ Click(MaxTeardownSteps, GestureTimes)
    \/ DoubleClick(MaxTeardownSteps)
    \/ DecayTick(MaxTeardownSteps)
    \/ Unmount
    \/ Rerun
    \/ Unheard

TeardownSpec == TeardownInit /\ [][TeardownNext]_vars

\* Every event in short sequences, with a container that keeps the requests
\* and applies them later, one by one in the order they were made, at any
\* moment between two events.
DeferredInit == MountedWith(InitialValues) /\ batching = TRUE

ApplyPending == ApplyEvent /\ UNCHANGED steps

DeferredNext ==
    \/ PointerDown(MaxDeferredSteps, DeferredIds, DeferredPoints)
    \/ PointerMove(MaxDeferredSteps, DeferredIds, DeferredPoints, ButtonsValues,
                   GestureTypes)
    \/ PointerUp(MaxDeferredSteps, DeferredIds)
    \/ Wheel(MaxDeferredSteps, GestureDeltas)
    \/ Click(MaxDeferredSteps, GestureTimes)
    \/ DoubleClick(MaxDeferredSteps)
    \/ DecayTick(MaxDeferredSteps)
    \/ ApplyPending

DeferredSpec == DeferredInit /\ [][DeferredNext]_vars

\* -------------------------------------------------------------------- claims

\* The step delivers an event of the given kind.
Delivered(kind) == lastEvent' = kind /\ steps' = steps + 1

\* The identifiers the tracker holds, and the samples it holds for one of them.
TrackedIds(m) == {m[k].id : k \in 1..Len(m)}
SamplesOf(m, id) ==
    {[x |-> m[k].x, y |-> m[k].y] : k \in {j \in 1..Len(m) : m[j].id = id}}
EntriesBut(m, id) == SelectSeq(m, LAMBDA e : e.id # id)

\* C1: RotationBoost stays in [-3, 3], PanOffset.x in [-15, 15], PanOffset.y in
\* [-10, 10] and ZoomOffset in [-20, 40] after every sequence of events and
\* decay ticks.
C1_AccumulatorsInRange ==
    /\ -3 * Scale <= rotationBoost /\ rotationBoost <= 3 * Scale
    /\ -15 * Scale <= panOffset.x /\ panOffset.x <= 15 * Scale
    /\ -10 * Scale <= panOffset.y /\ panOffset.y <= 10 * Scale
    /\ -20 * Scale <= zoomOffset /\ zoomOffset <= 40 * Scale

\* A two-pointer move that would have taken both coordinates of PanOffset past
\* their upper bounds left them at the bounds.
C1_Witness ==
    /\ panOffset.x = 15 * Scale
    /\ panOffset.y = 10 * Scale
    /\ Len(pointers) = 2
    /\ lastEvent = "move"

\* C2: a pointer-move whose identifier is not tracked changes nothing of the
\* tracker, the references and the container's values.
C2_UnknownMoveIsNoOp ==
    [][Delivered("move") =>
          \A id \in PointerIds, p \in Points, b \in ButtonsValues,
             t \in PointerTypes, m \in MovementXs :
              (/\ id \notin TrackedIds(pointers)
               /\ handlePointerMove(id, p.x, p.y, b, t, m))
              => UNCHANGED <<refs, container>>]_vars

\* A move was delivered after a click while a pointer was tracked, and the
\* pointer signal is still the click's: the move was ignored.
C2_Witness ==
    /\ lastEvent = "move"
    /\ Len(pointers) = 1
    /\ \E p \in ClickPoints : pointer = Some(normalize(p.x, p.y))

C3_Down ==
    Delivered("down") =>
    \A id \in PointerIds, p \in Points :
        handlePointerDown(id, p.x, p.y)
        => /\ SamplesOf(pointers', id) = {p}
           /\ EntriesBut(pointers', id) = EntriesBut(pointers, id)
           /\ Len(pointers') = IF id \in TrackedIds(pointers) THEN Len(pointers)
                               ELSE Len(pointers) + 1

C3_Up ==
    Delivered("up") =>
    \A id \in PointerIds :
        handlePointerUp(id)
        => /\ SamplesOf(pointers', id) = {}
           /\ EntriesBut(pointers', id) = EntriesBut(pointers, id)
           /\ Len(pointers') = IF id \in TrackedIds(pointers) THEN Len(pointers) - 1
                               ELSE Len(pointers)

C3_Others ==
    (lastEvent' \notin {"down", "up"}) => (TrackedIds(pointers') = TrackedIds(pointers))

\* C3: a pointer-down for i at (x, y) leaves the tracker mapping i to (x, y)
\* and an up/cancel for i leaves i absent, whether or not i was tracked, every
\* other entry unchanged; the count goes up by at most one on a down and down
\* by at most one on an up; the tracked identifiers are those whose most
\* recent down/up/cancel was a down.
C3_DownInsertsUpRemoves ==
    /\ [](TrackedIds(pointers) = downIds /\ Len(pointers) = Cardinality(downIds))
    /\ [][C3_Down /\ C3_Up /\ C3_Others]_vars

\* Two downs and an up have left one pointer tracked.
C3_Witness ==
    /\ lastEvent = "up"
    /\ steps = 3
    /\ Len(pointers) = 1
    /\ downIds = {2}

\* The clamp of a value to [lo, hi], written out.
Clamped(v, lo, hi) == IF v < lo THEN lo ELSE IF v > hi THEN hi ELSE v

\* The mean of the two samples of a two-entry tracker and their distance.
MidX(m) == ((m[1].x + m[2].x) * Scale) \div 2
MidY(m) == ((m[1].y + m[2].y) * Scale) \div 2
Apart(m) == Hypot(m[1].x - m[2].x, m[1].y - m[2].y)

\* The tracker holds exactly the samples a and b, for two identifiers.
Holds(m, a, b) ==
    /\ Len(m) = 2
    /\ [x |-> m[1].x, y |-> m[1].y] = a
    /\ [x |-> m[2].x, y |-> m[2].y] = b

\* C4: in a two-pointer gesture (the second pointer put down, then moves of
\* the two tracked pointers, no clamp bound reached) PanOffset has changed by
\* (0.02 x the change of centroid.x, -0.02 x the change of centroid.y) and
\* ZoomOffset by -0.01 x the change of the pinch distance, however the motion
\* was split into moves; samples (100,100),(200,100) moved to (100,50),(250,50)
\* give PanOffset.x + 0.5, PanOffset.y + 1.0 and ZoomOffset - 0.5.
C4_GestureAccumulates ==
    gesture # Null =>
        LET g == Val(gesture)
        IN  /\ Len(pointers) = 2
            /\ (panOffset.x - g.pan0.x) * 100 = 2 * (MidX(pointers) - MidX(g.pts0))
            /\ (panOffset.y - g.pan0.y) * 100 = -2 * (MidY(pointers) - MidY(g.pts0))
            /\ (zoomOffset - g.zoom0) * 100 = -(Apart(pointers) - Apart(g.pts0))
            /\ (/\ Holds(g.pts0, [x |-> 100, y |-> 100], [x |-> 200, y |-> 100])
                /\ Holds(pointers, [x |-> 100, y |-> 50], [x |-> 250, y |-> 50]))
               => /\ panOffset.x = g.pan0.x + Scale \div 2
                  /\ panOffset.y = g.pan0.y + Scale
                  /\ zoomOffset = g.zoom0 - Scale \div 2

\* The gesture of the example, after both pointers have moved.
C4_Witness ==
    /\ gesture # Null
    /\ Holds(Val(gesture).pts0, [x |-> 100, y |-> 100], [x |-> 200, y |-> 100])
    /\ Holds(pointers, [x |-> 100, y |-> 50], [x |-> 250, y |-> 50])
    /\ lastEvent = "move"

\* The normalized point of a pixel coordinate.
Normalized(p) ==
    Some([x |-> (p.x * Scale) \div InnerWidth, y |-> (p.y * Scale) \div InnerHeight])

\* A dragging move of the anchored pointer to p, its first drag since the anchor
\* of the given kind was set.
AnchoredDrag(id, p, b, t, m) ==
    /\ Val(anchor).id = id
    /\ IsDragging(b, t)
    /\ handlePointerMove(id, p.x, p.y, b, t, m)

\* The step delivers a move while an anchor of the given kind is set and no
\* drag has followed it.
MoveAfter(kind) ==
    /\ anchor # Null
    /\ Val(anchor).kind = kind
    /\ ~Val(anchor).dragged
    /\ Delivered("move")

\* RotationBoost after a drag from x0 to x1: clamp(previous - 0.01 x (x1 - x0)).
BoostAfter(previous, x0, x1) ==
    Clamped(previous - ((x1 - x0) * Scale) \div 100, -3 * Scale, 3 * Scale)

C5_Drag ==
    MoveAfter("down") =>
    \A id \in PointerIds, p \in Points, b \in ButtonsValues,
       t \in PointerTypes, m \in MovementXs :
        AnchoredDrag(id, p, b, t, m)
        => /\ rotationBoost' = BoostAfter(rotationBoost, Val(anchor).x, p.x)
           /\ lastPrimary' = Some([id |-> id, x |-> p.x, y |-> p.y])
           /\ panOffset' = panOffset
           /\ zoomOffset' = zoomOffset

\* C5: from idle, a pointer-down at x0 followed by a dragging move of that
\* sole pointer to x1 sets RotationBoost to clamp(previous - 0.01 x (x1 - x0),
\* -3, 3), sets the single-pointer reference to the new position and leaves
\* PanOffset and ZoomOffset unchanged; a drag from 300 to 280 adds 0.2.
C5_DragSetsBoost ==
    /\ [](DragBoost(0, 280 - 300) = 2 * Tenth)
    /\ [][C5_Drag]_vars

\* The sole pointer was put down from idle and dragged, and the boost was
\* clamped at 3.
C5_Witness ==
    /\ anchor # Null
    /\ Val(anchor).kind = "down"
    /\ Val(anchor).dragged
    /\ rotationBoost = 3 * Scale
    /\ lastEvent = "move"

C7_Release ==
    (Len(pointers) = 2 /\ Delivered("up")) =>
    \A id \in PointerIds :
        (id \in TrackedIds(pointers) /\ handlePointerUp(id))
        => pointer' = Normalized(OtherSample(pointers, id))

C7_Drag ==
    MoveAfter("release") =>
    \A id \in PointerIds, p \in Points, b \in ButtonsValues,
       t \in PointerTypes, m \in MovementXs :
        AnchoredDrag(id, p, b, t, m)
        => /\ rotationBoost' = BoostAfter(rotationBoost, Val(anchor).x, p.x)
           /\ panOffset' = panOffset
           /\ zoomOffset' = zoomOffset

\* C7: when one of exactly two tracked pointers is released, the pointer
\* signal becomes the normalized position of the remaining pointer, and the
\* next dragging move of the remaining pointer changes RotationBoost by
\* -0.01 x (new x - its x at the release), clamped, and leaves PanOffset and
\* ZoomOffset unchanged.
C7_ReleaseHandsOver == [][C7_Release /\ C7_Drag]_vars

\* One of two pointers was released and the remaining one dragged, which
\* changed the boost.
C7_Witness ==
    /\ anchor # Null
    /\ Val(anchor).kind = "release"
    /\ Val(anchor).dragged
    /\ rotationBoost # 0
    /\ lastEvent = "move"

\* C8: in every reachable state a click sets hover-progress to 0, the pointer
\* signal to the normalized click coordinate and the click timestamp, and
\* leaves the tracker, the references, RotationBoost, PanOffset, ZoomOffset
\* and InteractionState unchanged.
C8_ClickResetsHover ==
    [][\A p \in ClickPoints, now \in Times :
          (Delivered("click") /\ handleClick(p.x, p.y, now))
          => /\ hoverProgress' = 0
             /\ pointer' = Normalized(p)
             /\ clickTrigger' = now
             /\ UNCHANGED <<refs, rotationBoost, panOffset, zoomOffset, state>>]_vars

\* A click was delivered while two pointers were tracked.
C8_Witness ==
    /\ lastEvent = "click"
    /\ Len(pointers) = 2
    /\ hoverProgress = 0
    /\ clickTrigger \in Times

\* The other of the two values of InteractionState.
Opposite(s) == IF s = "FORMED" THEN "CHAOS" ELSE "FORMED"

\* C9: each double-click sets InteractionState to the other of its two values
\* and changes nothing else; after two double-clicks, with any other events
\* between them, InteractionState has its original value.
C9_DoubleClickToggles ==
    /\ [](/\ state \in TreeStates
          /\ state = IF doubleClicks = 0 THEN initialState ELSE Opposite(initialState))
    /\ [][(Delivered("dblclick") /\ handleDoubleClick)
           => /\ state' = Opposite(state)
              /\ UNCHANGED <<refs, pointer, hoverProgress, clickTrigger, panOffset,
                             rotationBoost, zoomOffset>>]_vars

\* Two double-clicks with a pointer-down between them.
C9_Witness ==
    /\ lastEvent = "dblclick"
    /\ doubleClicks = 0
    /\ steps = 3
    /\ Len(pointers) = 1
    /\ state = initialState

C10_Wheel ==
    \A p \in WheelPoints, d \in WheelDeltas :
        (Delivered("wheel") /\ handleWheel(p.x, p.y, d))
        => /\ zoomOffset' =
                  Clamped(zoomOffset - (d * 2 * Scale) \div 1000, -20 * Scale, 40 * Scale)
           /\ pointer' = Normalized(p)
           /\ UNCHANGED <<refs, rotationBoost, panOffset, hoverProgress,
                          clickTrigger, state>>

\* (With two or more pointers tracked the handler reads neither the buttons
\* nor the pointer type of the event.)
C10_Pinch ==
    (Len(pointers) >= 2 /\ lastDistance # Null /\ Delivered("move")) =>
    \A id \in TrackedIds(pointers), p \in Points, m \in MovementXs :
        handlePointerMove(id, p.x, p.y, 0, "mouse", m)
        => zoomOffset' =
               Clamped(zoomOffset - (Apart(pointers') - Val(lastDistance)) \div 100,
                       -20 * Scale, 40 * Scale)

\* C10: a wheel event with vertical delta d, in any tracker state, sets
\* ZoomOffset to clamp(previous - 0.002 x d, -20, 40) and the pointer signal to
\* the wheel coordinate, and leaves the tracker, the references,
\* RotationBoost and PanOffset unchanged; the pinch-driven zoom is clamped to
\* the same bounds.
C10_WheelZooms == [][C10_Wheel /\ C10_Pinch]_vars

\* A wheel event with no pointer tracked took ZoomOffset to its upper bound.
C10_Witness ==
    /\ lastEvent = "wheel"
    /\ pointers = <<>>
    /\ zoomOffset = 40 * Scale
    /\ \E p \in WheelPoints : pointer = Normalized(p)

\* C11: the teardown releases the seven subscriptions and the decay timer
\* together: in no reachable state are subscriptions removed while the timer
\* is active, and after the teardown no event of the host and no tick changes
\* RotationBoost or any other value of the container.
C11_TeardownTogether ==
    /\ [](timer <=> listeners = EventTypes)
    /\ [](~timer <=> listeners = {})
    /\ [][listeners # EventTypes => UNCHANGED <<refs, container, effects>>]_vars

\* The component was unmounted with a boost a tick would change, and the host
\* had an event after that.
C11_Witness ==
    /\ lastEvent = "unheard"
    /\ listeners = {}
    /\ ~timer
    /\ Abs(rotationBoost) > Scale
    /\ Len(pointers) = 1

\* C12: with a container that applies the requests later, in the order they
\* were made, every accumulator update is computed from the value stored when
\* it is applied: the values once every pending request is applied are the
\* in-order composition of all the updates requested, for every interleaving
\* of drags, decay ticks and the other events, so no update is lost.
C12_DeferredUpdatesCompose ==
    /\ ApplyAll(pending, stored) = Values
    /\ pending = << >> => stored.rotationBoost = rotationBoost

\* A drag made after a decay tick is pending behind it, earlier requests have
\* been applied, and the boost stored is not yet the composition.
C12_Witness ==
    /\ lastEvent = "apply"
    /\ Len(pending) >= 2
    /\ Head(pending).updater = "decay"
    /\ \E k \in 2..Len(pending) : pending[k].updater = "drag"
    /\ stored.rotationBoost # rotationBoost

\* The sample the tracker holds for a tracked identifier.
Recorded(m, id) == CHOOSE q \in SamplesOf(m, id) : TRUE

\* A move of a tracked pointer that reports the coordinates the tracker holds
\* for it leaves PanOffset and ZoomOffset unchanged.
\* (With two or more pointers tracked the handler reads neither the buttons
\* nor the pointer type of the event.)
NoJump ==
    \A id \in TrackedIds(pointers), m \in MovementXs :
        handlePointerMove(id, Recorded(pointers, id).x, Recorded(pointers, id).y,
                          0, "mouse", m)
        => panOffset' = panOffset /\ zoomOffset' = zoomOffset

\* C13: the pointer-down that makes the tracked count exactly 2 sets the
\* Centroid reference to the midpoint of the two tracked samples and the
\* PinchDistance reference to their Euclidean distance, so that a move right
\* after it that reports a tracked pointer's recorded coordinates leaves
\* PanOffset and ZoomOffset unchanged.
C13_SecondDownSetsBaseline ==
    /\ []((lastEvent = "down" /\ Len(pointers) = 2)
           => /\ lastCentroid = Some([x |-> MidX(pointers), y |-> MidY(pointers)])
              /\ lastDistance = Some(Apart(pointers)))
    /\ [][(lastEvent = "down" /\ Len(pointers) = 2 /\ Delivered("move")) => NoJump]_vars

\* Two pointers went down at different places and the first then reported
\* its recorded coordinates: the samples and the offsets are those of the
\* second down.
C13_Witness ==
    /\ lastEvent = "move"
    /\ steps = 3
    /\ Len(pointers) = 2
    /\ gesture # Null
    /\ Val(gesture).pts0 = pointers
    /\ pointers[1].x # pointers[2].x
    /\ pointer = Normalized(pointers[1])
    /\ panOffset = Val(gesture).pan0
    /\ zoomOffset = Val(gesture).zoom0

\* C14 as stated: in every state with fewer than two tracked pointers the
\* Centroid and PinchDistance references are undefined.
C14_UndefinedBelowTwo ==
    Len(pointers) < 2 => lastCentroid = Null /\ lastDistance = Null

C14_Hover ==
    (Len(pointers) = 1 /\ Delivered("move")) =>
    \A id \in TrackedIds(pointers), p \in Points, m \in MovementXs :
        handlePointerMove(id, p.x, p.y, 0, "mouse", m)
        => lastCentroid' = Null /\ lastDistance' = Null

C14_Up ==
    (Delivered("up") /\ pointers' # << >>) => UNCHANGED <<lastCentroid, lastDistance>>

C14_Enter ==
    (Len(pointers) < 2 /\ Len(pointers') >= 2)
    => /\ lastCentroid' = Some([x |-> MidX(pointers'), y |-> MidY(pointers')])
       /\ lastDistance' = Some(Apart(pointers'))

\* C14, amended: the Centroid and PinchDistance references are undefined
\* after an up/cancel that leaves no pointer tracked and after a non-dragging
\* move of a sole tracked pointer; an up/cancel that leaves a pointer tracked
\* leaves both as they were (defined, right after a release from 2 to 1); and
\* the step that takes the count from below 2 to 2 sets both from the two
\* samples, whatever they held.
C14_ClearedAtIdleAndHover ==
    /\ []((lastEvent = "up" /\ pointers = << >>)
           => lastCentroid = Null /\ lastDistance = Null)
    /\ [][C14_Hover /\ C14_Up /\ C14_Enter]_vars

\* One of two pointers was released after a two-pointer move: one pointer is
\* tracked and both references are defined.
C14_Witness ==
    /\ lastEvent = "up"
    /\ steps = 4
    /\ Len(pointers) = 1
    /\ lastCentroid # Null
    /\ lastDistance # Null

\* The identifiers of the first two entries of the tracker.
FirstTwo(m) == {m[1].id, m[2].id}

\* PanOffset after the centroid of n pointers follows one pointer from q to
\* p: the change is 0.02 x (p.x - q.x) / n and -0.02 x (p.y - q.y) / n before
\* the clamps.
PanAfter(pan, q, p, n) ==
    [x |-> Clamped(pan.x + (2 * (p.x - q.x) * Scale) \div (100 * n),
                   -15 * Scale, 15 * Scale),
     y |-> Clamped(pan.y - (2 * (p.y - q.y) * Scale) \div (100 * n),
                   -10 * Scale, 10 * Scale)]

C15_Zoom ==
    (Len(pointers) >= 3 /\ Delivered("move")) =>
    \A id \in TrackedIds(pointers) \ FirstTwo(pointers), p \in Points, m \in MovementXs :
        handlePointerMove(id, p.x, p.y, 0, "mouse", m) => zoomOffset' = zoomOffset

C15_Pan ==
    (Len(pointers) >= 3 /\ Delivered("move")) =>
    \A id \in TrackedIds(pointers) \ FirstTwo(pointers), p \in Points, m \in MovementXs :
        handlePointerMove(id, p.x, p.y, 0, "mouse", m)
        => panOffset' = PanAfter(panOffset, Recorded(pointers, id), p, Len(pointers))

\* C15: with three or more pointers tracked, a move of a pointer that is not
\* one of the first two of the tracker leaves ZoomOffset unchanged and changes
\* PanOffset by 0.02 x (and -0.02 x for y) the pointer's displacement divided
\* by the number of tracked pointers, before clamping.
C15_ThirdPointerPansOnly == [][C15_Zoom /\ C15_Pan]_vars

\* C16: after an up/cancel that leaves no pointer tracked, the pointer signal
\* is absent and the Centroid, PinchDistance and single-pointer references
\* are undefined, while RotationBoost, PanOffset and ZoomOffset keep the values
\* they had before the event.
C16_UpToIdleClearsReferences ==
    /\ []((lastEvent = "up" /\ pointers = << >>)
           => /\ pointer = Null
              /\ lastCentroid = Null
              /\ lastDistance = Null
              /\ lastPrimary = Null)
    /\ [][(Delivered("up") /\ pointers' = << >>)
           => UNCHANGED <<rotationBoost, panOffset, zoomOffset>>]_vars

\* A pointer went down, was dragged, which took the boost to its bound, and
\* went up: nothing is tracked and the boost is still at the bound.
C16_Witness ==
    /\ lastEvent = "up"
    /\ steps = 3
    /\ pointers = << >>
    /\ pointer = Null
    /\ lastPrimary = Null
    /\ rotationBoost = 3 * Scale

\* The mean of the samples of the tracker.
MeanX(m) == (SumX(m) * Scale) \div Len(m)
MeanY(m) == (SumY(m) * Scale) \div Len(m)

\* The step is a move handled with two or more pointers tracked and a
\* Centroid reference, and PanOffset follows the change of the centroid.
C17_CentroidDelta ==
    /\ lastEvent' = "move"
    /\ Len(pointers') >= 2
    /\ lastCentroid # Null
    /\ panOffset'.x = Clamped(panOffset.x + (2 * (MeanX(pointers') - Val(lastCentroid).x)) \div 100,
                              -15 * Scale, 15 * Scale)
    /\ panOffset'.y = Clamped(panOffset.y - (2 * (MeanY(pointers') - Val(lastCentroid).y)) \div 100,
                              -10 * Scale, 10 * Scale)

\* C17: PanOffset is changed only by the centroid deltas of moves handled with
\* two or more tracked pointers; every other event (down, up/cancel, a move
\* with one tracked pointer, wheel, click, double-click, decay tick) leaves it
\* unchanged, and the decay tick changes nothing but RotationBoost.
C17_PanOnlyByCentroid ==
    /\ [][panOffset' # panOffset => C17_CentroidDelta]_vars
    /\ [][Delivered("timer")
           => UNCHANGED <<refs, pointer, hoverProgress, clickTrigger, panOffset,
                          zoomOffset, state>>]_vars

\* The timer ticked while two pointers were tracked: the boost decayed and the
\* pan is the one at mount.
C17_Witness ==
    /\ lastEvent = "timer"
    /\ Len(pointers) = 2
    /\ lastCentroid # Null
    /\ panOffset = [x |-> 149 * Tenth, y |-> 99 * Tenth]
    /\ rotationBoost = (29 * Tenth * 94) \div 100

C18_Drag ==
    (Len(pointers) = 1 /\ Delivered("move")) =>
    \A id \in TrackedIds(pointers), p \in Points, b \in ButtonsValues,
       t \in PointerTypes, m \in MovementXs :
        (IsDragging(b, t) /\ handlePointerMove(id, p.x, p.y, b, t, m))
        => /\ lastPrimary # Null
           /\ rotationBoost' = BoostAfter(rotationBoost, Val(lastPrimary).x, p.x)

\* C18: in every reachable state with at least one tracked pointer the
\* single-pointer reference is defined, so a dragging move of a sole pointer
\* always takes its displacement from the reference and never from the
\* event's raw motion delta.
C18_PrimaryDefinedWhileTracked ==
    /\ [](pointers # << >> => lastPrimary # Null)
    /\ [][C18_Drag]_vars

\* A sole pointer was dragged to the left by more than the raw motion delta
\* of the event, which took the boost down to its lower bound.
C18_Witness ==
    /\ lastEvent = "move"
    /\ Len(pointers) = 1
    /\ anchor # Null
    /\ Val(anchor).dragged
    /\ lastPrimary = Some(pointers[1])
    /\ rotationBoost = -3 * Scale

C19_Drag ==
    (Len(pointers) = 1 /\ Delivered("move")) =>
    \A id \in TrackedIds(pointers), p \in Points, b \in ButtonsValues,
       t \in PointerTypes, m \in MovementXs :
        (IsDragging(b, t) /\ handlePointerMove(id, p.x, p.y, b, t, m))
        => rotationBoost' = BoostAfter(rotationBoost, Recorded(pointers, id).x, p.x)

\* C19: in every reachable state with exactly one tracked pointer the
\* single-pointer reference holds that pointer's identifier and the position
\* the tracker records for it, so a dragging move of the sole pointer changes
\* RotationBoost by -0.01 x (new x - the x recorded by its previous event),
\* clamped, also when the previous event was a non-dragging move.
C19_PrimaryIsRecordedPosition ==
    /\ [](Len(pointers) = 1 => lastPrimary = Some(pointers[1]))
    /\ [][C19_Drag]_vars

\* C20: changes of the number of tracked pointers never make PanOffset or
\* ZoomOffset jump: in every reachable state with two or more tracked
\* pointers, a move that reports a tracked pointer's recorded coordinates
\* leaves PanOffset and ZoomOffset unchanged.
C20_NoJumpOnCountChange ==
    [][(Len(pointers) >= 2 /\ Delivered("move")) => NoJump]_vars

\* A tick of the timer.
C6_Tick == lastEvent' = "timer" /\ decay

\* C6: with no drag and the timer ticking, RotationBoost eventually is exactly
\* 0 and every further tick leaves it 0; before that a tick multiplies it by
\* 0.94 (to the nearest unit) when its magnitude is at least 0.001 and sets it
\* to 0 when its magnitude is below 0.001.
C6_DecaysToRest ==
    /\ <>[](rotationBoost = 0)
    /\ [][C6_Tick =>
            /\ rotationBoost = 0 => rotationBoost' = 0
            /\ (rotationBoost < Scale \div 1000 /\ rotationBoost > -(Scale \div 1000))
                  => rotationBoost' = 0
            /\ (rotationBoost >= Scale \div 1000 \/ rotationBoost <= -(Scale \div 1000))
                  => /\ rotationBoost' * 100 - rotationBoost * 94 <= 50
                     /\ rotationBoost * 94 - rotationBoost' * 100 <= 50]_vars

\* The boost, not 0 at mount, is 0 after a tick.
C6_Witness ==
    /\ rotationBoost = 0
    /\ lastEvent = "timer"

====
